---- MODULE Spec2Model ----
(***************************************************************************)
(* Model of ipxe/generate_archlinux_ipxe.py: the script fetches the        *)
(* release list and the mirror list, filters and sorts them, groups the    *)
(* mirrors by country and prints a rendered jinja template.                *)
(*                                                                         *)
(* Python strings that the code orders or splits are sequences of          *)
(* one-character strings, compared by code point as Python compares str.   *)
(* Strings the code only copies or hashes (version, url, country_code)     *)
(* are plain strings.                                                      *)
(***************************************************************************)
EXTENDS Integers, Sequences, FiniteSets, TLC

VARIABLES
    pc,                 \* the statement the interpreter is about to execute
    data,               \* local `data` of the running retrieve_* function
    local,              \* local result list of the running retrieve_* function
    releases,           \* main's `releases`
    mirrorurls,         \* main's `mirrorurls`
    mirrors_by_country, \* main's `mirrors_by_country`
    template,           \* render_from_jinja_template's `template`
    rendered,           \* the value of template.render(...) before print
    stdout,             \* the writes made to standard output
    stderr,             \* the uncaught exception reported on standard error
    exit_status,        \* <<>> while running, <<code>> once the process ended
    trace               \* history: the externally visible events, in order

vars == <<pc, data, local, releases, mirrorurls, mirrors_by_country, template,
          rendered, stdout, stderr, exit_status, trace>>

----------------------------------------------------------------------------
(* Bounds of the explored inputs *)

\* longest releases array explored by SpecReleases
MaxReleases == 3
\* longest urls array explored by SpecMirrors
MaxMirrors == 3
\* longest mirror sequence handed to sort_mirrors_by_country by SpecGroup
MaxGroupInput == 3
\* longest releases / urls array explored by the whole-run specification Spec
MaxPipelineLen == 1

----------------------------------------------------------------------------
(* Python str: ordering *)

Ord(c) ==
    CASE c = "/" -> 47
      [] c = "1" -> 49
      [] c = "2" -> 50
      [] c = "F" -> 70
      [] c = "G" -> 71
      [] c = "a" -> 97
      [] c = "b" -> 98
      [] c = "e" -> 101
      [] c = "h" -> 104
      [] c = "m" -> 109
      [] c = "x" -> 120

MinOf(a, b) == IF a <= b THEN a ELSE b

\* str.__lt__: lexicographic by code point, a proper prefix is smaller
StrLess(s, t) ==
    \E k \in 1..(MinOf(Len(s), Len(t)) + 1) :
        /\ \A i \in 1..(k - 1) : s[i] = t[i]
        /\ \/ k > Len(s) /\ k <= Len(t)
           \/ k <= Len(s) /\ k <= Len(t) /\ Ord(s[k]) < Ord(t[k])

StrLeq(s, t) == s = t \/ StrLess(s, t)

----------------------------------------------------------------------------
(* list helpers *)

Reverse(xs) == [i \in 1..Len(xs) |-> xs[Len(xs) + 1 - i]]

\* binary insertion of the stable sort: x goes before the first element
\* whose key is strictly greater, hence after every element with an equal key
InsertByKey(x, kx, xs, keys) ==
    LET later == {i \in 1..Len(xs) : StrLess(kx, keys[i])}
        k == IF later = {} THEN Len(xs) + 1
             ELSE CHOOSE i \in later : \A j \in later : i <= j
    IN  [items |-> SubSeq(xs, 1, k - 1) \o <<x>> \o SubSeq(xs, k, Len(xs)),
         keys  |-> SubSeq(keys, 1, k - 1) \o <<kx>> \o SubSeq(keys, k, Len(keys))]

RECURSIVE StableSort(_, _, _)
\* the first n elements of xs, stably sorted by the parallel list of keys
StableSort(xs, keys, n) ==
    IF n = 0 THEN [items |-> <<>>, keys |-> <<>>]
    ELSE LET done == StableSort(xs, keys, n - 1)
         IN  InsertByKey(xs[n], keys[n], done.items, done.keys)

\* sorted(xs, key=..., reverse=...): list.sort reverses the list, sorts it
\* stably and reverses the result when reverse is true
sorted(xs, keys, reverse) ==
    IF reverse
    THEN Reverse(StableSort(Reverse(xs), Reverse(keys), Len(xs)).items)
    ELSE StableSort(xs, keys, Len(xs)).items

----------------------------------------------------------------------------
(* str.rsplit *)

\* the maxsplit argument of rsplit('/', 3)
rsplit_maxsplit == 3
\* the (zero-based) subscript applied to the result of the rsplit
name_index == 1

LastIndexOf(s, sep) ==
    LET at == {i \in 1..Len(s) : s[i] = sep}
    IN  IF at = {} THEN 0 ELSE CHOOSE i \in at : \A j \in at : j <= i

RECURSIVE rsplit(_, _, _)
\* s.rsplit(sep, maxsplit): splits at the rightmost separators, at most
\* maxsplit times; what is left of the string is the first element
rsplit(s, sep, maxsplit) ==
    LET k == LastIndexOf(s, sep)
    IN  IF maxsplit = 0 \/ k = 0 THEN <<s>>
        ELSE rsplit(SubSeq(s, 1, k - 1), sep, maxsplit - 1)
                 \o <<SubSeq(s, k + 1, Len(s))>>

----------------------------------------------------------------------------
(* The JSON documents the two endpoints may answer with *)

SeqsUpTo(S, n) == UNION {[1..k -> S] : k \in 0..n}

Versions == {"v1", "v2"}
\* release_date values: "1" < "12" < "2" as Python compares str
Dates == {<<"1">>, <<"1", "2">>, <<"2">>}

ReleaseEntries == [version : Versions, release_date : Dates, available : BOOLEAN]

\* a JSON object is modelled by its one top-level key and the array under it;
\* key "detail" is an object that has neither "releases" nor "urls"
JsonObject(key, items) == [key |-> key, items |-> items]
NoData == JsonObject("", <<>>)

ReleaseResponses(n) ==
    {JsonObject("releases", s) : s \in SeqsUpTo(ReleaseEntries, n)}
        \cup {JsonObject("detail", <<>>)}

Urls == <<"u1", "u2", "u3", "u4", "u5">>
Protocols == {"http", "https"}
CountryCodes == {"DE", "FR"}
\* country names: "F" < "G" < "Ge" as Python compares str
Countries == {<<"F">>, <<"G">>, <<"G", "e">>}
\* details strings with 4, 3, 2, 1 and 0 slashes
Details == {<<"h", "/", "m", "/", "a", "/", "1", "/">>,
            <<"m", "/", "b", "/", "2", "/">>,
            <<"x", "/", "a", "/">>,
            <<"a", "/", "b">>,
            <<"x">>}

\* the fields of a urls entry other than url
MirrorFields ==
    [protocol : Protocols, active : BOOLEAN, isos : BOOLEAN, details : Details,
     country_code : CountryCodes, country : Countries]

\* The urls entries SpecMirrors and Spec explore. An entry that passes the
\* filter and whose details has a slash takes every such details value with
\* each of three (country_code, country) pairs: one code under two country
\* names, and a second code whose country name sorts between the two. An
\* entry that fails the filter takes two details values, one of them without
\* slash, and one (country_code, country) pair; so does a passing entry whose
\* details has no slash.
ExploredCountries == {<<"DE", <<"F">>>>, <<"FR", <<"G">>>>, <<"DE", <<"G", "e">>>>}
ExploredMirrorFields ==
    {f \in MirrorFields :
        IF f.protocol = "http" /\ f.active /\ f.isos /\ f.details # <<"x">>
        THEN <<f.country_code, f.country>> \in ExploredCountries
        ELSE /\ f.details \in {<<"x">>, <<"x", "/", "a", "/">>}
             /\ f.country_code = "DE"
             /\ f.country = <<"F">>}

\* the i-th entry of a urls array carries the i-th url: urls are unique
UrlsArray(fs) ==
    [i \in 1..Len(fs) |->
        [protocol |-> fs[i].protocol, active |-> fs[i].active, isos |-> fs[i].isos,
         url |-> Urls[i], details |-> fs[i].details,
         country_code |-> fs[i].country_code, country |-> fs[i].country]]

MirrorResponses(n) ==
    {JsonObject("urls", UrlsArray(fs)) : fs \in SeqsUpTo(ExploredMirrorFields, n)}
        \cup {JsonObject("detail", <<>>)}

\* what the jinja loader may find next to the script
TemplateFiles == {"absent", "syntax_error", "render_error", "ok"}

----------------------------------------------------------------------------
(* retrieve_releases *)

\* key=itemgetter('release_date'): the sort keys of a list of releases
release_dates(items) == [i \in 1..Len(items) |-> items[i].release_date]
\* [release["version"] for release in ...]
versions_of(items) == [i \in 1..Len(items) |-> items[i].version]
\* if release["available"]
is_available(release) == release.available

\* sort_filter_releases without reverse=True: oldest first
sort_filter_releases_ascending(items) ==
    LET by_date == sorted(items, release_dates(items), FALSE)
    IN  versions_of(SelectSeq(by_date, is_available))

\* lines 16-17, applied to data["releases"]
sort_filter_releases(items) ==
    LET by_date == sorted(items, release_dates(items), TRUE)
    IN  versions_of(SelectSeq(by_date, is_available))

----------------------------------------------------------------------------
(* retrieve_mirrors *)

\* is_included with a prefix test on the protocol: https passes too
is_included_any_http(mirror) ==
    mirror.protocol \in {"http", "https"} /\ mirror.active /\ mirror.isos

\* line 28
is_included(mirror) ==
    mirror.protocol = "http" /\ mirror.active /\ mirror.isos

\* the list whose element name_index line 31 takes
details_parts(mirror) == rsplit(mirror.details, "/", rsplit_maxsplit)

\* line 31 raises IndexError when the rsplit has no element name_index
name_raises(mirror) == Len(details_parts(mirror)) <= name_index

\* make_mirror taking the second element from the right, subscript -2
make_mirror_second_from_right(mirror) ==
    [url          |-> mirror.url,
     name         |-> details_parts(mirror)[Len(details_parts(mirror)) - 1],
     country_code |-> mirror.country_code,
     country      |-> mirror.country]

\* lines 29-31: the Mirror namedtuple
make_mirror(mirror) ==
    [url          |-> mirror.url,
     name         |-> details_parts(mirror)[name_index + 1],
     country_code |-> mirror.country_code,
     country      |-> mirror.country]

\* lines 27-32 raise when a mirror that passes the filter has no name
loop_raises(items) ==
    \E i \in 1..Len(items) : is_included(items[i]) /\ name_raises(items[i])

\* lines 27-32, when nothing raises
collect_mirrors(items) ==
    LET included == SelectSeq(items, is_included)
    IN  [i \in 1..Len(included) |-> make_mirror(included[i])]

\* key=lambda x: x.name
names_of(ms) == [i \in 1..Len(ms) |-> ms[i].name]
\* key=lambda x: x.country
countries_of(ms) == [i \in 1..Len(ms) |-> ms[i].country]

\* sort_mirrorurls with its two sorts exchanged
sort_mirrorurls_country_first(ms) ==
    LET by_country == sorted(ms, countries_of(ms), FALSE)
    IN  sorted(by_country, names_of(by_country), FALSE)

\* sort_mirrorurls without line 35
sort_mirrorurls_name_only(ms) == sorted(ms, names_of(ms), FALSE)

\* sort_mirrorurls without line 34
sort_mirrorurls_country_only(ms) == sorted(ms, countries_of(ms), FALSE)

\* lines 34-35
sort_mirrorurls(ms) ==
    LET by_name == sorted(ms, names_of(ms), FALSE)
    IN  sorted(by_name, countries_of(by_name), FALSE)

----------------------------------------------------------------------------
(* sort_mirrors_by_country *)

\* a dict is the sequence of its (key, value) items in insertion order
HasKey(d, key) == \E i \in 1..Len(d) : d[i].key = key

\* line 43
new_group(mirror) ==
    [grouper |-> mirror.country_code, grouper_name |-> mirror.country, list |-> <<>>]

\* line 45
list_entry(mirror) == [url |-> mirror.url, name |-> mirror.name]

\* group_step with the dict keyed by mirror.country
group_step_keyed_by_country(d, mirror) ==
    LET d1 == IF ~HasKey(d, mirror.country)
              THEN Append(d, [key |-> mirror.country, value |-> new_group(mirror)])
              ELSE d
    IN  [i \in 1..Len(d1) |->
            IF d1[i].key = mirror.country
            THEN [d1[i] EXCEPT !.value.list = Append(@, list_entry(mirror))]
            ELSE d1[i]]

\* lines 42-45: one iteration of the loop
group_step(d, mirror) ==
    LET d1 == IF ~HasKey(d, mirror.country_code)
              THEN Append(d, [key |-> mirror.country_code, value |-> new_group(mirror)])
              ELSE d
    IN  [i \in 1..Len(d1) |->
            IF d1[i].key = mirror.country_code
            THEN [d1[i] EXCEPT !.value.list = Append(@, list_entry(mirror))]
            ELSE d1[i]]

RECURSIVE group_loop(_, _)
\* lines 40-45: the dict after the first n mirrors
group_loop(ms, n) ==
    IF n = 0 THEN <<>> ELSE group_step(group_loop(ms, n - 1), ms[n])

\* lines 39-49: dict.values() lists the values in insertion order
sort_mirrors_by_country(ms) ==
    LET d == group_loop(ms, Len(ms))
    IN  [i \in 1..Len(d) |-> d[i].value]

----------------------------------------------------------------------------
(* render_from_jinja_template *)

RECURSIVE Flatten(_)
Flatten(xss) == IF xss = <<>> THEN <<>> ELSE Head(xss) \o Flatten(Tail(xss))

release_lines(versions) == [i \in 1..Len(versions) |-> <<"release", versions[i]>>]
mirror_lines(list) == [i \in 1..Len(list) |-> <<"mirror", list[i].url, list[i].name>>]
group_lines(group) ==
    <<<<"country", group.grouper, group.grouper_name>>>> \o mirror_lines(group.list)

\* template.render(mirrors_by_country=..., releases=...): the template loops
\* over the two bindings; the document is the sequence of its lines
render(groups, versions) ==
    release_lines(versions)
        \o Flatten([i \in 1..Len(groups) |-> group_lines(groups[i])])

----------------------------------------------------------------------------
(* main: the order of its calls *)

\* main_steps with lines 63 and 64 exchanged
main_steps_mirrors_first ==
    <<"retrieve_mirrors", "retrieve_releases", "sort_mirrors_by_country",
      "render_from_jinja_template">>

\* lines 63-67: the functions main calls, in order
main_steps ==
    <<"retrieve_releases", "retrieve_mirrors", "sort_mirrors_by_country",
      "render_from_jinja_template">>

\* where main continues after function f returned; "done" after the last one
after(f) ==
    LET i == CHOOSE j \in 1..Len(main_steps) : main_steps[j] = f
    IN  IF i < Len(main_steps) THEN main_steps[i + 1] ELSE "done"

\* function f returns to main; when main returns the interpreter exits with 0
Return(f) ==
    /\ pc' = after(f)
    /\ exit_status' = IF after(f) = "done" THEN <<0>> ELSE exit_status
    /\ stderr' = stderr

\* an exception nothing catches: traceback on stderr, exit status 1
Raise(exception) ==
    /\ pc' = "failed"
    /\ stderr' = exception
    /\ exit_status' = <<1>>

Init ==
    /\ pc = main_steps[1]
    /\ data = NoData
    /\ local = <<>>
    /\ releases = <<>>
    /\ mirrorurls = <<>>
    /\ mirrors_by_country = <<>>
    /\ template = ""
    /\ rendered = <<>>
    /\ stdout = <<>>
    /\ stderr = ""
    /\ exit_status = <<>>
    /\ trace = <<>>

----------------------------------------------------------------------------
(* retrieve_releases, lines 12-19 *)

\* urlopen_releases with the failure caught: the function goes on to return
\* the empty list of line 13
urlopen_releases_swallowing(responses) ==
    /\ pc = "retrieve_releases"
    /\ \/ /\ \E response \in responses : data' = response
          /\ pc' = "releases_loaded"
          /\ trace' = Append(trace, "GET releases")
       \/ /\ pc' = "releases_return"
          /\ trace' = trace \o <<"GET releases", "error">>
          /\ data' = data
    /\ UNCHANGED <<local, releases, mirrorurls, mirrors_by_country, template,
                   rendered, stdout, stderr, exit_status>>

\* lines 14-15: the request, the read and orjson.loads
urlopen_releases(responses) ==
    /\ pc = "retrieve_releases"
    /\ \/ /\ \E response \in responses : data' = response
          /\ pc' = "releases_loaded"
          /\ trace' = Append(trace, "GET releases")
          /\ UNCHANGED <<stderr, exit_status>>
       \/ /\ \E exception \in {"URLError", "JSONDecodeError"} : Raise(exception)
          /\ trace' = trace \o <<"GET releases", "error">>
          /\ data' = data
    /\ UNCHANGED <<local, releases, mirrorurls, mirrors_by_country, template,
                   rendered, stdout>>

\* lines 16-17
releases_body ==
    /\ pc = "releases_loaded"
    /\ IF data.key = "releases"
       THEN /\ local' = sort_filter_releases(data.items)
            /\ pc' = "releases_return"
            /\ UNCHANGED <<stderr, exit_status, trace>>
       ELSE /\ Raise("KeyError")
            /\ trace' = Append(trace, "error")
            /\ local' = local
    /\ UNCHANGED <<data, releases, mirrorurls, mirrors_by_country, template,
                   rendered, stdout>>

\* lines 19 and 63: the locals go away, main binds the result
return_releases ==
    /\ pc = "releases_return"
    /\ releases' = local
    /\ data' = NoData
    /\ local' = <<>>
    /\ Return("retrieve_releases")
    /\ trace' = Append(trace, "return retrieve_releases")
    /\ UNCHANGED <<mirrorurls, mirrors_by_country, template, rendered, stdout>>

----------------------------------------------------------------------------
(* retrieve_mirrors, lines 22-37 *)

\* lines 24-25
urlopen_mirrors(responses) ==
    /\ pc = "retrieve_mirrors"
    /\ \/ /\ \E response \in responses : data' = response
          /\ pc' = "mirrors_loaded"
          /\ trace' = Append(trace, "GET mirrors")
          /\ UNCHANGED <<stderr, exit_status>>
       \/ /\ \E exception \in {"URLError", "JSONDecodeError"} : Raise(exception)
          /\ trace' = trace \o <<"GET mirrors", "error">>
          /\ data' = data
    /\ UNCHANGED <<local, releases, mirrorurls, mirrors_by_country, template,
                   rendered, stdout>>

\* lines 27-35
mirrors_body ==
    /\ pc = "mirrors_loaded"
    /\ IF data.key # "urls"
       THEN /\ Raise("KeyError")
            /\ trace' = Append(trace, "error")
            /\ local' = local
       ELSE IF loop_raises(data.items)
       THEN /\ Raise("IndexError")
            /\ trace' = Append(trace, "error")
            /\ local' = local
       ELSE /\ local' = sort_mirrorurls(collect_mirrors(data.items))
            /\ pc' = "mirrors_return"
            /\ UNCHANGED <<stderr, exit_status, trace>>
    /\ UNCHANGED <<data, releases, mirrorurls, mirrors_by_country, template,
                   rendered, stdout>>

\* lines 37 and 64
return_mirrors ==
    /\ pc = "mirrors_return"
    /\ mirrorurls' = local
    /\ data' = NoData
    /\ local' = <<>>
    /\ Return("retrieve_mirrors")
    /\ trace' = Append(trace, "return retrieve_mirrors")
    /\ UNCHANGED <<releases, mirrors_by_country, template, rendered, stdout>>

----------------------------------------------------------------------------
(* line 65 *)

call_sort_mirrors_by_country ==
    /\ pc = "sort_mirrors_by_country"
    /\ mirrors_by_country' = sort_mirrors_by_country(mirrorurls)
    /\ Return("sort_mirrors_by_country")
    /\ trace' = Append(trace, "group")
    /\ UNCHANGED <<data, local, releases, mirrorurls, template, rendered, stdout>>

----------------------------------------------------------------------------
(* render_from_jinja_template, lines 51-59 *)

\* lines 52-57: the loader finds the file or not, the environment compiles it
get_template ==
    /\ pc = "render_from_jinja_template"
    /\ \E file \in TemplateFiles :
          CASE file = "absent" ->
                  /\ Raise("TemplateNotFound")
                  /\ trace' = trace \o <<"get_template", "error">>
                  /\ template' = template
            [] file = "syntax_error" ->
                  /\ Raise("TemplateSyntaxError")
                  /\ trace' = trace \o <<"get_template", "error">>
                  /\ template' = template
            [] OTHER ->
                  /\ template' = file
                  /\ pc' = "template_loaded"
                  /\ trace' = Append(trace, "get_template")
                  /\ UNCHANGED <<stderr, exit_status>>
    /\ UNCHANGED <<data, local, releases, mirrorurls, mirrors_by_country,
                   rendered, stdout>>

\* line 59, the argument of print: template.render(...) returns the whole
\* document or raises
template_render ==
    /\ pc = "template_loaded"
    /\ IF template = "render_error"
       THEN /\ Raise("UndefinedError")
            /\ trace' = trace \o <<"render", "error">>
            /\ rendered' = rendered
       ELSE /\ rendered' = render(mirrors_by_country, releases)
            /\ pc' = "rendered"
            /\ trace' = Append(trace, "render")
            /\ UNCHANGED <<stderr, exit_status>>
    /\ UNCHANGED <<data, local, releases, mirrorurls, mirrors_by_country,
                   template, stdout>>

\* line 59, the call of print, and the return to main
print_rendered ==
    /\ pc = "rendered"
    /\ stdout' = Append(stdout, rendered)
    /\ Return("render_from_jinja_template")
    /\ trace' = Append(trace, "print")
    /\ UNCHANGED <<data, local, releases, mirrorurls, mirrors_by_country,
                   template, rendered>>

----------------------------------------------------------------------------
(* Specifications *)

\* a whole run of the script on short responses
Next ==
    \/ urlopen_releases(ReleaseResponses(MaxPipelineLen))
    \/ releases_body
    \/ return_releases
    \/ urlopen_mirrors(MirrorResponses(MaxPipelineLen))
    \/ mirrors_body
    \/ return_mirrors
    \/ call_sort_mirrors_by_country
    \/ get_template
    \/ template_render
    \/ print_rendered

Spec == Init /\ [][Next]_vars

\* retrieve_releases on every releases array up to MaxReleases entries
NextReleases ==
    \/ urlopen_releases(ReleaseResponses(MaxReleases))
    \/ releases_body
    \/ return_releases

SpecReleases == Init /\ [][NextReleases]_vars

\* the state of a run in which retrieve_releases has returned an empty list
InitMirrors ==
    /\ pc = "retrieve_mirrors"
    /\ data = NoData
    /\ local = <<>>
    /\ releases = <<>>
    /\ mirrorurls = <<>>
    /\ mirrors_by_country = <<>>
    /\ template = ""
    /\ rendered = <<>>
    /\ stdout = <<>>
    /\ stderr = ""
    /\ exit_status = <<>>
    /\ trace = <<"GET releases", "return retrieve_releases">>

\* retrieve_mirrors and the grouping on every urls array up to MaxMirrors
NextMirrors ==
    \/ urlopen_mirrors(MirrorResponses(MaxMirrors))
    \/ mirrors_body
    \/ return_mirrors
    \/ call_sort_mirrors_by_country

SpecMirrors == InitMirrors /\ [][NextMirrors]_vars

\* the Mirror namedtuples sort_mirrors_by_country may be handed
MirrorNames == {<<"a">>, <<"b">>}
MirrorTuples(n) ==
    {[i \in 1..Len(fs) |->
        [url |-> Urls[i], name |-> fs[i].name,
         country_code |-> fs[i].country_code, country |-> fs[i].country]] :
     fs \in SeqsUpTo([name : MirrorNames, country_code : CountryCodes,
                      country : Countries], n)}

\* sort_mirrors_by_country as a function: any mirror sequence as its argument
InitGroup ==
    /\ pc = "sort_mirrors_by_country"
    /\ data = NoData
    /\ local = <<>>
    /\ releases = <<>>
    /\ mirrorurls \in MirrorTuples(MaxGroupInput)
    /\ mirrors_by_country = <<>>
    /\ template = ""
    /\ rendered = <<>>
    /\ stdout = <<>>
    /\ stderr = ""
    /\ exit_status = <<>>
    /\ trace = <<"GET releases", "return retrieve_releases",
                 "GET mirrors", "return retrieve_mirrors">>

NextGroup == call_sort_mirrors_by_country

SpecGroup == InitGroup /\ [][NextGroup]_vars

----------------------------------------------------------------------------
(* Claims *)

Indices(xs) == 1..Len(xs)

\* C1: when retrieve_releases is about to return, its result lists exactly
\* the versions of the entries of data["releases"] whose available flag is
\* true, one element per such entry, in an order in which release_date never
\* increases.
C1_ReleasesAvailableNewestFirst ==
    pc = "releases_return" =>
        LET items == data.items
            avail == {i \in Indices(items) : items[i].available = TRUE}
        IN  \E p \in [Indices(local) -> avail] :
                /\ \A i, j \in Indices(local) : i # j => p[i] # p[j]
                /\ \A a \in avail : \E i \in Indices(local) : p[i] = a
                /\ \A i \in Indices(local) : local[i] = items[p[i]].version
                /\ \A i \in Indices(local) : i < Len(local) =>
                       StrLeq(items[p[i + 1]].release_date, items[p[i]].release_date)

\* three entries, the unavailable one first, the two available ones oldest
\* first and of different versions: the sort reorders and the filter drops
C1_Witness ==
    /\ pc = "releases_return"
    /\ Len(data.items) = 3
    /\ ~data.items[1].available
    /\ data.items[2].available /\ data.items[3].available
    /\ StrLess(data.items[2].release_date, data.items[3].release_date)
    /\ data.items[2].version # data.items[3].version
    /\ local = <<data.items[3].version, data.items[2].version>>

\* the urls entry a returned Mirror was built from
SameMirror(m, e) ==
    m.url = e.url /\ m.country_code = e.country_code /\ m.country = e.country

InSequence(e, ms) == \E i \in Indices(ms) : SameMirror(ms[i], e)

InSomeGroup(e, groups) ==
    \E g \in Indices(groups) :
        /\ groups[g].grouper = e.country_code
        /\ \E k \in Indices(groups[g].list) : groups[g].list[k].url = e.url

\* C2: when retrieve_mirrors is about to return, an entry of data["urls"] is
\* in the result, and in a group sort_mirrors_by_country makes of the result,
\* if and only if its protocol is "http" and its active and isos flags are
\* true.
C2_OnlyActiveHttpIsoMirrors ==
    pc = "mirrors_return" =>
        \A i \in Indices(data.items) :
            LET e == data.items[i]
                wanted == e.protocol = "http" /\ e.active = TRUE /\ e.isos = TRUE
            IN  /\ InSequence(e, local) <=> wanted
                /\ InSomeGroup(e, sort_mirrors_by_country(local)) <=> wanted

\* an https entry that is active with isos, an inactive http entry and an
\* included entry in one response
C2_Witness ==
    /\ pc = "mirrors_return"
    /\ Len(data.items) = 3
    /\ data.items[1].protocol = "https" /\ data.items[1].active /\ data.items[1].isos
    /\ data.items[2].protocol = "http" /\ ~data.items[2].active /\ data.items[2].isos
    /\ is_included(data.items[3])
    /\ Len(local) = 1 /\ local[1].url = data.items[3].url

SortedByCountryThenName(ms) ==
    \A i \in Indices(ms) : i < Len(ms) =>
        /\ StrLeq(ms[i].country, ms[i + 1].country)
        /\ ms[i].country = ms[i + 1].country => StrLeq(ms[i].name, ms[i + 1].name)

\* C3: the sequence retrieve_mirrors returns is ordered by country ascending
\* and, among equal countries, by name ascending.
C3_MirrorsSortedByCountryThenName ==
    /\ pc = "mirrors_return" => SortedByCountryThenName(local)
    /\ SortedByCountryThenName(mirrorurls)

\* three included mirrors that arrive in another order than the returned one,
\* two of one country with different names and one of another country
C3_Witness ==
    /\ pc = "mirrors_return"
    /\ Len(local) = 3
    /\ local # collect_mirrors(data.items)
    /\ local[1].country = local[2].country /\ local[1].name # local[2].name
    /\ local[2].country # local[3].country
    /\ StrLess(local[3].name, local[2].name)

----------------------------------------------------------------------------
(* The split of a details string, stated without rsplit *)

SlashPositions(s) == {i \in Indices(s) : s[i] = "/"}

\* the positions a split from the right into at most n parts cuts at: the
\* n - 1 rightmost slashes, or all of them when there are fewer
RightCuts(s, n) ==
    CHOOSE cuts \in SUBSET SlashPositions(s) :
        /\ Cardinality(cuts) = MinOf(n - 1, Cardinality(SlashPositions(s)))
        /\ \A c \in cuts : \A q \in SlashPositions(s) \ cuts : q < c

\* the j-th cut from the left; 0 and Len(s) + 1 bound the string
CutAt(s, cuts, j) ==
    IF j = 0 THEN 0
    ELSE IF j = Cardinality(cuts) + 1 THEN Len(s) + 1
    ELSE CHOOSE c \in cuts : Cardinality({d \in cuts : d < c}) = j - 1

\* the segments between the cuts, from the left
RightSplit(s, n) ==
    LET cuts == RightCuts(s, n)
    IN  [j \in 1..(Cardinality(cuts) + 1) |->
            SubSeq(s, CutAt(s, cuts, j - 1) + 1, CutAt(s, cuts, j) - 1)]

EntryOf(m) == CHOOSE i \in Indices(data.items) : data.items[i].url = m.url

\* C6 as stated: the name of every returned mirror is the second-from-right
\* segment of its details split on "/" from the right into at most 4 parts,
\* and that segment is the element of subscript 1 of the split.
C6_NameIsSecondFromRight ==
    pc = "mirrors_return" =>
        \A i \in Indices(local) :
            LET parts == RightSplit(data.items[EntryOf(local[i])].details, 4)
            IN  /\ Len(parts) >= 2
                /\ local[i].name = parts[Len(parts) - 1]
                /\ parts[Len(parts) - 1] = parts[2]

\* C6 as amended: the name of every returned mirror is the element of
\* (zero-based) subscript 1, the second from the left, of its details split
\* on "/" from the right into at most 4 parts; when details holds three or
\* more "/" the split has 4 parts and the name is its third-from-right
\* element.
C6_NameIsSecondFromLeft ==
    pc = "mirrors_return" =>
        \A i \in Indices(local) :
            LET parts == RightSplit(data.items[EntryOf(local[i])].details, 4)
            IN  /\ Len(parts) \in 2..4
                /\ local[i].name = parts[2]
                /\ Cardinality(SlashPositions(data.items[EntryOf(local[i])].details)) >= 3
                       => Len(parts) = 4 /\ local[i].name = parts[Len(parts) - 2]

\* returned mirrors whose details hold four, three, and one slash
C6_Witness ==
    /\ pc = "mirrors_return"
    /\ Len(local) = 3
    /\ \E i \in Indices(data.items) :
          /\ Cardinality(SlashPositions(data.items[i].details)) = 4
          /\ InSequence(data.items[i], local)
    /\ \E i \in Indices(data.items) :
          /\ Cardinality(SlashPositions(data.items[i].details)) = 3
          /\ InSequence(data.items[i], local)
    /\ \E i \in Indices(data.items) :
          /\ Cardinality(SlashPositions(data.items[i].details)) = 1
          /\ InSequence(data.items[i], local)

----------------------------------------------------------------------------

NamesAscending(groups) ==
    \A g \in Indices(groups) : \A k \in Indices(groups[g].list) :
        k < Len(groups[g].list) =>
            StrLeq(groups[g].list[k].name, groups[g].list[k + 1].name)

GroupNamesAscending(groups) ==
    \A g \in Indices(groups) : g < Len(groups) =>
        StrLeq(groups[g].grouper_name, groups[g + 1].grouper_name)

\* C7: the country groups handed to the renderer are in ascending order of
\* grouper_name.
C7_GroupsInCountryNameOrder ==
    /\ GroupNamesAscending(mirrors_by_country)
    /\ pc = "mirrors_return" => GroupNamesAscending(sort_mirrors_by_country(local))

\* two groups of different names, the first of which also holds a mirror
\* whose country sorts after the second group's name
C7_Witness ==
    /\ pc = "render_from_jinja_template"
    /\ Len(mirrors_by_country) = 2
    /\ StrLess(mirrors_by_country[1].grouper_name, mirrors_by_country[2].grouper_name)
    /\ \E i \in Indices(mirrorurls) :
          /\ mirrorurls[i].country_code = mirrors_by_country[1].grouper
          /\ StrLess(mirrors_by_country[2].grouper_name, mirrorurls[i].country)

OneCountryPerCode(ms) ==
    \A i, j \in Indices(ms) :
        ms[i].country_code = ms[j].country_code => ms[i].country = ms[j].country

\* C10: when the included mirrors of one country_code all have the same
\* country, the list of every group made of the result of retrieve_mirrors
\* is in ascending order of name.
C10_GroupListsInNameOrder ==
    /\ OneCountryPerCode(mirrorurls) => NamesAscending(mirrors_by_country)
    /\ pc = "mirrors_return" /\ OneCountryPerCode(local)
           => NamesAscending(sort_mirrors_by_country(local))

\* Two groups; one holds two mirrors of different names whose urls are in
\* the other order, so the response listed them in descending order of name
C10_Witness ==
    /\ pc = "render_from_jinja_template"
    /\ OneCountryPerCode(mirrorurls)
    /\ Len(mirrors_by_country) = 2
    /\ \E g \in Indices(mirrors_by_country) :
          /\ Len(mirrors_by_country[g].list) = 2
          /\ StrLess(mirrors_by_country[g].list[1].name, mirrors_by_country[g].list[2].name)
          /\ mirrors_by_country[g].list[1].url = Urls[3]
          /\ mirrors_by_country[g].list[2].url = Urls[1]

----------------------------------------------------------------------------

CodesOf(ms) == {ms[i].country_code : i \in Indices(ms)}

FirstWith(ms, code) ==
    CHOOSE i \in Indices(ms) :
        /\ ms[i].country_code = code
        /\ \A j \in Indices(ms) : ms[j].country_code = code => i <= j

\* the positions of the mirrors of one code, in input order
PositionsOf(ms, code) == {i \in Indices(ms) : ms[i].country_code = code}

NthOf(S, n) == CHOOSE x \in S : Cardinality({y \in S : y < x}) = n - 1

\* how often the pair (url, name) of ms[i] is in the lists of the groups
Occurrences(groups, ms, m) ==
    Cardinality({<<g, k>> \in Indices(groups) \X Indices(ms) :
                    /\ k <= Len(groups[g].list)
                    /\ groups[g].list[k] = [url |-> m.url, name |-> m.name]})

\* C4: sort_mirrors_by_country returns one group per country_code of its
\* argument, in the order in which the codes first occur; a group's grouper
\* and grouper_name are the country_code and country of the first mirror
\* with that code, its list holds the (url, name) pairs of the mirrors with
\* that code in their order, and every mirror is in exactly one list once.
C4_GroupsByFirstOccurrence ==
    pc = after("sort_mirrors_by_country") =>
        LET ms == mirrorurls
            groups == mirrors_by_country
        IN  /\ {groups[g].grouper : g \in Indices(groups)} = CodesOf(ms)
            /\ Len(groups) = Cardinality(CodesOf(ms))
            /\ \A g, h \in Indices(groups) : g < h =>
                   FirstWith(ms, groups[g].grouper) < FirstWith(ms, groups[h].grouper)
            /\ \A g \in Indices(groups) :
                   LET first == ms[FirstWith(ms, groups[g].grouper)]
                       at == PositionsOf(ms, groups[g].grouper)
                   IN  /\ groups[g].grouper_name = first.country
                       /\ Len(groups[g].list) = Cardinality(at)
                       /\ \A k \in Indices(groups[g].list) :
                              groups[g].list[k] =
                                  [url |-> ms[NthOf(at, k)].url, name |-> ms[NthOf(at, k)].name]
            /\ \A i \in Indices(ms) : Occurrences(groups, ms, ms[i]) = 1

\* An argument that is not sorted by country: the codes alternate and the
\* two mirrors of the first code have different countries
C4_Witness ==
    /\ pc = after("sort_mirrors_by_country")
    /\ Len(mirrorurls) = 3
    /\ mirrorurls[1].country_code = mirrorurls[3].country_code
    /\ mirrorurls[1].country_code # mirrorurls[2].country_code
    /\ mirrorurls[1].country # mirrorurls[3].country
    /\ StrLess(mirrorurls[2].country, mirrorurls[1].country)
    /\ Len(mirrors_by_country) = 2
    /\ Len(mirrors_by_country[1].list) = 2

----------------------------------------------------------------------------

\* C5: a run in which a step failed has ended with a non-zero exit status and
\* has written nothing to standard output; standard output holds text only
\* when no step failed, and then it holds the whole rendered document, once,
\* and the run has ended with exit status 0.
C5_FailureAbortsWithoutOutput ==
    LET failed == \E i \in Indices(trace) : trace[i] = "error"
    IN  /\ failed => pc = "failed" /\ exit_status = <<1>> /\ stdout = <<>>
        /\ pc = "failed" => failed
        /\ stdout # <<>> =>
               /\ ~failed
               /\ pc = "done"
               /\ exit_status = <<0>>
               /\ stdout = <<render(sort_mirrors_by_country(mirrorurls), releases)>>
        /\ pc = "done" => stdout # <<>>
        /\ exit_status # <<>> => pc \in {"done", "failed"}

\* the template fails to render after both fetches returned data
C5_Witness ==
    /\ pc = "failed"
    /\ stderr = "UndefinedError"
    /\ releases # <<>>
    /\ mirrors_by_country # <<>>
    /\ stdout = <<>>
    /\ exit_status = <<1>>

\* the events of a run in which nothing fails
Schedule ==
    <<"GET releases", "return retrieve_releases", "GET mirrors",
      "return retrieve_mirrors", "group", "get_template", "render", "print">>

\* C9: the steps of a run happen in the order fetch releases, fetch mirrors,
\* group, load template, render, print, each at most once and each after the
\* one before it has completed; after a failure nothing else happens; and
\* standard output is written at most once, by the last step.
C9_StepsInOrder ==
    /\ \E n \in 0..Len(Schedule) :
          \/ trace = SubSeq(Schedule, 1, n)
          \/ n >= 1 /\ trace = Append(SubSeq(Schedule, 1, n), "error")
    /\ Len(stdout) <= 1
    /\ stdout # <<>> <=> (trace # <<>> /\ trace[Len(trace)] = "print")
    /\ stdout # <<>> => pc = "done"

\* a run that printed
C9_Witness ==
    /\ pc = "done"
    /\ trace = Schedule
    /\ Len(stdout) = 1
    /\ releases # <<>>
    /\ Len(mirrors_by_country) = 1

====
